---------------------------- MODULE Spec2Model ----------------------------
(***************************************************************************)
(* GreenTrack carbon prediction engine (carbon.prediction) and the records *)
(* it reads (carbon.activity, carbon.initiative).                          *)
(*                                                                         *)
(* Numbers are Python floats, i.e. IEEE-754 binary64 values, and every     *)
(* arithmetic operation rounds to nearest, ties to even, as CPython does.  *)
(* A float is a record [s, m, e] with value s * m * 2^e, where m is either *)
(* zero or a 53-bit significand; significands and the exact intermediate   *)
(* results are naturals written as little-endian sequences of 15-bit       *)
(* limbs, because TLC's integers have 32 bits.  The values of the model    *)
(* stay far from the exponent limits, so neither overflow nor subnormals   *)
(* are modelled, and -0.0 is not told apart from 0.0.                      *)
(***************************************************************************)
EXTENDS Integers, Sequences, FiniteSets, TLC

-----------------------------------------------------------------------------
(* Natural numbers of arbitrary size: little-endian limbs, no high zeros.  *)

\* half of the 32 bits of TLC's integers, less one: a product of two limbs
\* plus a carry stays below 2^31
LimbBits == 15

LimbBase == 2^LimbBits

Pow2(k) == 2^k

RECURSIVE SmallBitLen(_)
SmallBitLen(n) == IF n = 0 THEN 0 ELSE 1 + SmallBitLen(n \div 2)

RECURSIVE BigNorm(_)
BigNorm(a) ==
    IF a = <<>> THEN <<>>
    ELSE IF a[Len(a)] = 0 THEN BigNorm(SubSeq(a, 1, Len(a) - 1))
    ELSE a

RECURSIVE BigFromNat(_)
BigFromNat(n) ==
    IF n = 0 THEN <<>> ELSE <<n % LimbBase>> \o BigFromNat(n \div LimbBase)

BigLimb(a, i) == IF i <= Len(a) THEN a[i] ELSE 0

RECURSIVE BigAddFrom(_, _, _, _)
BigAddFrom(a, b, i, c) ==
    IF i > Len(a) /\ i > Len(b)
    THEN (IF c = 0 THEN <<>> ELSE <<c>>)
    ELSE <<(BigLimb(a, i) + BigLimb(b, i) + c) % LimbBase>>
         \o BigAddFrom(a, b, i + 1,
                       (BigLimb(a, i) + BigLimb(b, i) + c) \div LimbBase)

BigAdd(a, b) == BigAddFrom(a, b, 1, 0)

\* a - b for a >= b
RECURSIVE BigSubFrom(_, _, _, _)
BigSubFrom(a, b, i, c) ==
    IF i > Len(a) THEN <<>>
    ELSE IF a[i] - BigLimb(b, i) - c < 0
    THEN <<a[i] - BigLimb(b, i) - c + LimbBase>> \o BigSubFrom(a, b, i + 1, 1)
    ELSE <<a[i] - BigLimb(b, i) - c>> \o BigSubFrom(a, b, i + 1, 0)

BigSub(a, b) == BigNorm(BigSubFrom(a, b, 1, 0))

RECURSIVE BigCmpFrom(_, _, _)
BigCmpFrom(a, b, i) ==
    IF i = 0 THEN 0
    ELSE IF a[i] < b[i] THEN -1
    ELSE IF a[i] > b[i] THEN 1
    ELSE BigCmpFrom(a, b, i - 1)

\* -1, 0 or 1 as a < b, a = b or a > b
BigCmp(a, b) ==
    IF Len(a) < Len(b) THEN -1
    ELSE IF Len(a) > Len(b) THEN 1
    ELSE BigCmpFrom(a, b, Len(a))

\* a * k for 0 <= k <= LimbBase
RECURSIVE BigMulSmallFrom(_, _, _, _)
BigMulSmallFrom(a, k, i, c) ==
    IF i > Len(a)
    THEN (IF c = 0 THEN <<>> ELSE <<c>>)
    ELSE <<(a[i] * k + c) % LimbBase>>
         \o BigMulSmallFrom(a, k, i + 1, (a[i] * k + c) \div LimbBase)

BigMulSmall(a, k) == IF k = 0 THEN <<>> ELSE BigMulSmallFrom(a, k, 1, 0)

BigShiftLimb(a) == IF a = <<>> THEN <<>> ELSE <<0>> \o a

RECURSIVE BigMul(_, _)
BigMul(a, b) ==
    IF b = <<>> \/ a = <<>> THEN <<>>
    ELSE BigAdd(BigMulSmall(a, b[1]), BigShiftLimb(BigMul(a, Tail(b))))

BigPushDigit(rest, d) == <<Append(rest[1], d), rest[2]>>

\* <<floor(a / k), a mod k>> for 0 < k <= LimbBase
RECURSIVE BigDivSmallFrom(_, _, _, _)
BigDivSmallFrom(a, k, i, r) ==
    IF i = 0 THEN <<<<>>, r>>
    ELSE BigPushDigit(BigDivSmallFrom(a, k, i - 1, (r * LimbBase + a[i]) % k),
                      (r * LimbBase + a[i]) \div k)

BigNormQuotient(qr) == <<BigNorm(qr[1]), qr[2]>>

BigDivSmall(a, k) == BigNormQuotient(BigDivSmallFrom(a, k, Len(a), 0))

BigZeros(n) == [i \in 1..n |-> 0]

\* a * 2^k
BigShl(a, k) ==
    IF a = <<>> THEN <<>>
    ELSE BigZeros(k \div LimbBits) \o BigMulSmall(a, Pow2(k % LimbBits))

\* floor(a / 2^k)
BigShr(a, k) ==
    IF k \div LimbBits >= Len(a) THEN <<>>
    ELSE BigDivSmall(SubSeq(a, (k \div LimbBits) + 1, Len(a)),
                     Pow2(k % LimbBits))[1]

BigBitLen(a) ==
    IF a = <<>> THEN 0
    ELSE (Len(a) - 1) * LimbBits + SmallBitLen(a[Len(a)])

BigIsOdd(a) == a # <<>> /\ a[1] % 2 = 1

\* the largest q <= guess with b * q <= r
RECURSIVE BigDigitDown(_, _, _)
BigDigitDown(r, b, guess) ==
    IF BigCmp(BigMulSmall(b, guess), r) > 0
    THEN BigDigitDown(r, b, guess - 1)
    ELSE guess

BigDigitGuess(r, b, g) ==
    BigDigitDown(r, b, IF g < LimbBase THEN g ELSE LimbBase - 1)

\* floor(r / b) for r < b * LimbBase, where the high limb of b has its high
\* bit set: the guess from the high limbs is at most 2 too large
BigDigit(r, b) ==
    IF Len(r) < Len(b) THEN 0
    ELSE BigDigitGuess(r, b,
             (BigLimb(r, Len(b) + 1) * LimbBase + r[Len(b)]) \div b[Len(b)])

\* <<floor(a / b), a mod b>> for the limbs i..1 of a still to bring down, r
\* the remainder so far
RECURSIVE BigDivModFrom(_, _, _, _)
BigDivModDigit(a, b, i, r1, d) ==
    IF d >= 0
    THEN BigPushDigit(BigDivModFrom(a, b, i - 1, BigSub(r1, BigMulSmall(b, d))), d)
    ELSE <<>>

BigDivModStep(a, b, i, r1) ==
    IF Len(r1) >= 0 THEN BigDivModDigit(a, b, i, r1, BigDigit(r1, b)) ELSE <<>>

BigDivModFrom(a, b, i, r) ==
    IF i = 0 THEN <<<<>>, r>>
    ELSE BigDivModStep(a, b, i, BigNorm(<<a[i]>> \o r))

BigDivModDone(qr, sh) == <<BigNorm(qr[1]), BigShr(qr[2], sh)>>

BigDivModNorm(a, b, sh) ==
    BigDivModDone(BigDivModFrom(a, b, Len(a), <<>>), sh)

BigDivModShift(a, b, sh) == BigDivModNorm(BigShl(a, sh), BigShl(b, sh), sh)

\* <<floor(a / b), a mod b>> for b > 0, by long division on the limbs
BigDivMod(a, b) == BigDivModShift(a, b, LimbBits - SmallBitLen(b[Len(b)]))

\* -1, 0 or 1 as the low d bits of n are below, at or above the half 2^(d-1),
\* where q = floor(n / 2^d)
BigCmpHalf(n, q, d) == BigCmp(BigSub(n, BigShl(q, d)), BigShl(<<1>>, d - 1))

-----------------------------------------------------------------------------
(* Python float: binary64, round to nearest, ties to even.                 *)

\* significand bits of a Python float (sys.float_info.mant_dig)
Prec == 53

Zero == [s |-> 1, m |-> <<>>, e |-> 0]

IsZero(a) == a.m = <<>>

RoundCarry(s, q, e) ==
    IF BigBitLen(q) > Prec
    THEN [s |-> s, m |-> BigShr(q, 1), e |-> e + 1]
    ELSE [s |-> s, m |-> q, e |-> e]

RoundUp(s, q, e, c, sticky) ==
    IF c > 0 \/ (c = 0 /\ (sticky \/ BigIsOdd(q)))
    THEN RoundCarry(s, BigAdd(q, <<1>>), e)
    ELSE [s |-> s, m |-> q, e |-> e]

RoundCut(s, n, e, sticky, d, q) ==
    RoundUp(s, q, e + d, BigCmpHalf(n, q, d), sticky)

RoundBits(s, n, e, sticky, L) ==
    IF L <= Prec
    THEN [s |-> s, m |-> BigShl(n, Prec - L), e |-> e - (Prec - L)]
    ELSE RoundCut(s, n, e, sticky, L - Prec, BigShr(n, L - Prec))

\* the float nearest to s * (n + f) * 2^e, where 0 < f < 1 if sticky and
\* f = 0 otherwise; n is a natural of any size
RoundToFloat(s, n, e, sticky) ==
    IF n = <<>> THEN Zero ELSE RoundBits(s, n, e, sticky, BigBitLen(n))

ExactSubCmp(sa, sb, x, y, e, c) ==
    IF c = 0 THEN Zero
    ELSE IF c > 0 THEN [s |-> sa, m |-> BigSub(x, y), e |-> e]
    ELSE [s |-> sb, m |-> BigSub(y, x), e |-> e]

ExactAddAligned(sa, sb, x, y, e) ==
    IF sa = sb THEN [s |-> sa, m |-> BigAdd(x, y), e |-> e]
    ELSE ExactSubCmp(sa, sb, x, y, e, BigCmp(x, y))

ExactAddAt(a, b, e) ==
    ExactAddAligned(a.s, b.s, BigShl(a.m, a.e - e), BigShl(b.m, b.e - e), e)

\* the exact sum of two floats, as [s, m, e] with m of any size
ExactAdd(a, b) ==
    IF a.m = <<>> THEN b
    ELSE IF b.m = <<>> THEN a
    ELSE ExactAddAt(a, b, IF a.e < b.e THEN a.e ELSE b.e)

RoundExact(x) == RoundToFloat(x.s, x.m, x.e, FALSE)

RoundQuotient(s, qr, e) == RoundToFloat(s, qr[1], e, qr[2] # <<>>)

float_neg(a) == IF IsZero(a) THEN a ELSE [a EXCEPT !.s = -a.s]

float_abs(a) == [a EXCEPT !.s = 1]

float_add(a, b) == RoundExact(ExactAdd(a, b))

float_sub(a, b) == RoundExact(ExactAdd(a, float_neg(b)))

float_mul(a, b) ==
    IF IsZero(a) \/ IsZero(b) THEN Zero
    ELSE RoundToFloat(a.s * b.s, BigMul(a.m, b.m), a.e + b.e, FALSE)

\* a / b for b # 0
float_truediv(a, b) ==
    IF IsZero(a) THEN Zero
    ELSE RoundQuotient(a.s * b.s, BigDivMod(BigShl(a.m, Prec + 2), b.m),
                       a.e - b.e - (Prec + 2))

\* x ** 2, taken as the correctly rounded square (the C library's pow may be
\* one unit in the last place off when the square is not a float)
float_square(a) == float_mul(a, a)

FloatSign(a) == IF IsZero(a) THEN 0 ELSE a.s

FloatCmpMagnitude(a, b) ==
    IF a.e < b.e THEN -1
    ELSE IF a.e > b.e THEN 1
    ELSE BigCmp(a.m, b.m)

\* -1, 0 or 1 as a < b, a = b or a > b
float_cmp(a, b) ==
    IF FloatSign(a) < FloatSign(b) THEN -1
    ELSE IF FloatSign(a) > FloatSign(b) THEN 1
    ELSE IF IsZero(a) THEN 0
    ELSE a.s * FloatCmpMagnitude(a, b)

float_lt(a, b) == float_cmp(a, b) < 0

float_le(a, b) == float_cmp(a, b) <= 0

RoundSmallQuotient(s, qr, e) == RoundToFloat(s, qr[1], e, qr[2] # 0)

FromRatioShift(s, n, k, e, shift) ==
    RoundSmallQuotient(s, BigDivSmall(BigShl(n, shift), k), e - shift)

FromRatioNeed(s, n, k, e, need) ==
    FromRatioShift(s, n, k, e, IF need > 0 THEN need ELSE 0)

\* the float nearest to s * n * 2^e / k, for 0 < k <= LimbBase
FromRatio(s, n, k, e) ==
    FromRatioNeed(s, n, k, e, Prec + 2 + SmallBitLen(k) - BigBitLen(n))

\* float(n) for an int n
FromInt(n) ==
    RoundToFloat(IF n < 0 THEN -1 ELSE 1, BigFromNat(IF n < 0 THEN -n ELSE n),
                 0, FALSE)

\* the float written n / 10^digits in decimal, e.g. Dec(67, 1) is 6.7
Dec(n, digits) ==
    FromRatio(IF n < 0 THEN -1 ELSE 1, BigFromNat(IF n < 0 THEN -n ELSE n),
              10^digits, 0)

RoundHalfEven(q, c) ==
    IF c > 0 \/ (c = 0 /\ BigIsOdd(q)) THEN BigAdd(q, <<1>>) ELSE q

ScaledCut(t, d, q) == RoundHalfEven(q, BigCmpHalf(t, q, d))

\* t * 2^e to the nearest natural, ties to even
ScaledToNat(t, e) ==
    IF e >= 0 THEN BigShl(t, e) ELSE ScaledCut(t, -e, BigShr(t, -e))

\* round(x, ndigits): to the nearest multiple of 10^-ndigits, ties to even,
\* and from there to the nearest float
float_round(x, ndigits) ==
    IF IsZero(x) THEN Zero
    ELSE FromRatio(x.s, ScaledToNat(BigMulSmall(x.m, 10^ndigits), x.e),
                   10^ndigits, 0)

RECURSIVE ExactSum(_)
ExactSum(xs) ==
    IF xs = <<>> THEN Zero
    ELSE ExactAdd(ExactSum(SubSeq(xs, 1, Len(xs) - 1)), xs[Len(xs)])

MeanOf(t, n) == FromRatio(t.s, t.m, n, t.e)

\* statistics.mean: the exact sum divided by the count, rounded once
mean(xs) == MeanOf(ExactSum(xs), Len(xs))

-----------------------------------------------------------------------------
(* State.                                                                  *)

VARIABLES
    today,          \* datetime.now().date(), as [year, month, day]
    activities,     \* initiative.carbon_activity_ids, in iteration order
    compensated,    \* whether the interpreter's sum() compensates (3.12 on)
    data_points,    \* the list handed to simple_linear_regression
    ret             \* the last engine call: its name, its locals, its value

vars == <<today, activities, compensated, data_points, ret>>

-----------------------------------------------------------------------------
(* datetime.date and dateutil.relativedelta.                               *)

Date(y, m, d) == [year |-> y, month |-> m, day |-> d]

IsLeap(y) == y % 4 = 0 /\ (y % 100 # 0 \/ y % 400 = 0)

\* calendar.monthrange(year, month)[1]
DaysInMonth(y, m) ==
    IF m = 2 THEN (IF IsLeap(y) THEN 29 ELSE 28)
    ELSE IF m \in {4, 6, 9, 11} THEN 30
    ELSE 31

\* a <= b on dates
date_le(a, b) ==
    \/ a.year < b.year
    \/ a.year = b.year /\ a.month < b.month
    \/ a.year = b.year /\ a.month = b.month /\ a.day <= b.day

\* d - relativedelta(months=n): the month moves back, the day is cut to the
\* length of the month reached
\* variant: the window reaches back n years
minus_years(d, n) == Date(d.year - n, d.month, d.day)

clamp_day(y, m, day) ==
    Date(y, m, IF day < DaysInMonth(y, m) THEN day ELSE DaysInMonth(y, m))

normalize_month(y, m, day) ==
    IF m < 1 THEN clamp_day(y - 1, m + 12, day) ELSE clamp_day(y, m, day)

minus_months(d, n) == normalize_month(d.year - (n \div 12), d.month - (n % 12), d.day)

-----------------------------------------------------------------------------
(* The built-ins the engine uses.                                          *)

RECURSIVE sum_plain(_)
sum_plain(xs) ==
    IF xs = <<>> THEN Zero
    ELSE float_add(sum_plain(SubSeq(xs, 1, Len(xs) - 1)), xs[Len(xs)])

\* one round of Neumaier's compensated loop, t being total + x
neumaier_step(total, c, x, t) ==
    <<t, float_add(c, IF float_le(float_abs(x), float_abs(total))
                      THEN float_add(float_sub(total, t), x)
                      ELSE float_add(float_sub(x, t), total))>>

neumaier_add(p, x) == neumaier_step(p[1], p[2], x, float_add(p[1], x))

\* Neumaier's compensated loop: <<total, c>> after the items of xs
RECURSIVE sum_neumaier(_)
sum_neumaier(xs) ==
    IF Len(xs) = 1 THEN <<xs[1], Zero>>
    ELSE neumaier_add(sum_neumaier(SubSeq(xs, 1, Len(xs) - 1)), xs[Len(xs)])

neumaier_total(p) == float_add(p[1], p[2])

\* sum(xs) of floats, from the int 0: the plain loop of CPython up to 3.11,
\* the compensated loop from 3.12 on
builtin_sum(xs) ==
    IF xs = <<>> THEN Zero
    ELSE IF compensated THEN neumaier_total(sum_neumaier(xs))
    ELSE sum_plain(xs)

\* a < b on the tuples (key, value) of a dict's items
item_lt(a, b) ==
    a[1] < b[1] \/ (a[1] = b[1] /\ float_lt(a[2], b[2]))

RECURSIVE insert_sorted(_, _)
insert_sorted(xs, x) ==
    IF xs = <<>> THEN <<x>>
    ELSE IF item_lt(x, xs[Len(xs)])
    THEN Append(insert_sorted(SubSeq(xs, 1, Len(xs) - 1), x), xs[Len(xs)])
    ELSE Append(xs, x)

\* variant: the items in the order of insertion
unsorted(xs) == xs

\* sorted(items): ascending, stable
RECURSIVE sorted(_)
sorted(xs) ==
    IF xs = <<>> THEN <<>>
    ELSE insert_sorted(sorted(SubSeq(xs, 1, Len(xs) - 1)), xs[Len(xs)])

-----------------------------------------------------------------------------
(* carbon.prediction                                                       *)

\* variant: no lower bound on the date
in_range_until(a, start_date, end_date) == date_le(a.activity_date, end_date)

\* the filter of get_monthly_data: activity a lies in the window
in_range(a, start_date, end_date) ==
    date_le(start_date, a.activity_date) /\ date_le(a.activity_date, end_date)

\* variant: the difference of the months, whatever the years
months_diff_in_year(a, start_date) ==
    a.activity_date.month - start_date.month

months_diff(a, start_date) ==
    (a.activity_date.year - start_date.year) * 12
        + (a.activity_date.month - start_date.month)

\* variant: monthly_data[k] = v
dict_add_overwrite(d, k, v) ==
    IF \E i \in 1..Len(d) : d[i][1] = k
    THEN [i \in 1..Len(d) |-> IF d[i][1] = k THEN <<k, v>> ELSE d[i]]
    ELSE Append(d, <<k, float_add(Zero, v)>>)

\* monthly_data[k] += v on a dict kept as its items in insertion order; a new
\* key starts at 0.0
dict_add(d, k, v) ==
    IF \E i \in 1..Len(d) : d[i][1] = k
    THEN [i \in 1..Len(d) |->
            IF d[i][1] = k THEN <<k, float_add(d[i][2], v)>> ELSE d[i]]
    ELSE Append(d, <<k, float_add(Zero, v)>>)

\* the dict monthly_data after the loop over acts
RECURSIVE group_by_month(_, _)
group_by_month(acts, start_date) ==
    IF acts = <<>> THEN <<>>
    ELSE dict_add(group_by_month(SubSeq(acts, 1, Len(acts) - 1), start_date),
                  months_diff(acts[Len(acts)], start_date),
                  acts[Len(acts)].co2_saved)

\* variant: every activity is kept
filtered_all(acts, start_date, end_date) == acts

filtered(acts, start_date, end_date) ==
    SelectSeq(acts, LAMBDA a : in_range(a, start_date, end_date))

\* variant: months whose total is 0 are left out
monthly_data_nonzero(acts, start_date, end_date) ==
    SelectSeq(sorted(group_by_month(filtered(acts, start_date, end_date),
                                    start_date)),
              LAMBDA item : ~IsZero(item[2]))

monthly_data_between(acts, start_date, end_date) ==
    IF filtered(acts, start_date, end_date) = <<>> THEN <<>>
    ELSE sorted(group_by_month(filtered(acts, start_date, end_date), start_date))

get_monthly_data(acts, now, months) ==
    monthly_data_between(acts, minus_months(now, months), now)

column(items) == [i \in 1..Len(items) |-> items[i][2]]

NoRegression == [slope |-> Zero, intercept |-> Zero, r_squared |-> Zero]

\* y - (slope * x + intercept)
residual(x, y, slope, intercept) ==
    float_sub(y, float_add(float_mul(slope, x), intercept))

regression_result(slope, intercept, ss_total, ss_residual) ==
    [slope |-> slope, intercept |-> intercept,
     r_squared |-> IF float_lt(Zero, ss_total)
                   THEN float_sub(FromInt(1), float_truediv(ss_residual, ss_total))
                   ELSE Zero]

regression_r_squared(xv, yv, mean_y, slope, intercept) ==
    regression_result(slope, intercept,
        builtin_sum([i \in 1..Len(yv) |-> float_square(float_sub(yv[i], mean_y))]),
        builtin_sum([i \in 1..Len(yv) |->
                        float_square(residual(xv[i], yv[i], slope, intercept))]))

\* variant: intercept 0 when all x are equal
regression_intercept_zero(xv, yv, mean_x, mean_y, denominator, slope) ==
    regression_r_squared(xv, yv, mean_y, slope,
        IF IsZero(denominator) THEN Zero
        ELSE float_sub(mean_y, float_mul(slope, mean_x)))

regression_intercept(xv, yv, mean_x, mean_y, denominator, slope) ==
    regression_r_squared(xv, yv, mean_y, slope,
        IF IsZero(denominator) THEN mean_y
        ELSE float_sub(mean_y, float_mul(slope, mean_x)))

regression_slope(xv, yv, mean_x, mean_y, numerator, denominator) ==
    regression_intercept(xv, yv, mean_x, mean_y, denominator,
        IF IsZero(denominator) THEN Zero
        ELSE float_truediv(numerator, denominator))

regression_sums(xv, yv, mean_x, mean_y) ==
    regression_slope(xv, yv, mean_x, mean_y,
        builtin_sum([i \in 1..Len(xv) |->
                        float_mul(float_sub(xv[i], mean_x), float_sub(yv[i], mean_y))]),
        builtin_sum([i \in 1..Len(xv) |-> float_square(float_sub(xv[i], mean_x))]))

regression_means(xv, yv) == regression_sums(xv, yv, mean(xv), mean(yv))

\* the dict returned, its values as floats
simple_linear_regression(points) ==
    IF Len(points) < 2 THEN NoRegression
    ELSE regression_means([i \in 1..Len(points) |-> FromInt(points[i][1])],
                          column(points))

\* max(0, x)
max0(x) == IF float_lt(Zero, x) THEN x ELSE Zero

\* min(x, y)
float_min(x, y) == IF float_lt(y, x) THEN y ELSE x

\* variant: the line is read one month after the reference month
predict_fitted_reference(monthly_data, regression) ==
    [fn |-> "predict_next_month_co2", monthly_data |-> monthly_data,
     fitted |-> TRUE, regression |-> regression,
     value |-> float_round(
                   max0(float_add(float_mul(regression.slope, FromInt(6 + 1)),
                                  regression.intercept)),
                   2)]

\* variant: the fitted value is not clamped at 0
predict_fitted_unclamped(monthly_data, regression) ==
    [fn |-> "predict_next_month_co2", monthly_data |-> monthly_data,
     fitted |-> TRUE, regression |-> regression,
     value |-> float_round(
                   float_add(
                       float_mul(regression.slope,
                                 FromInt(monthly_data[Len(monthly_data)][1] + 1)),
                       regression.intercept),
                   2)]

predict_fitted(monthly_data, regression) ==
    [fn |-> "predict_next_month_co2", monthly_data |-> monthly_data,
     fitted |-> TRUE, regression |-> regression,
     value |-> float_round(
                   max0(float_add(
                       float_mul(regression.slope,
                                 FromInt(monthly_data[Len(monthly_data)][1] + 1)),
                       regression.intercept)),
                   2)]

\* variant: a single bucket is clamped and rounded like a fitted value
predict_from_rounded(monthly_data) ==
    IF Len(monthly_data) < 2
    THEN [fn |-> "predict_next_month_co2", monthly_data |-> monthly_data,
          fitted |-> FALSE, regression |-> NoRegression,
          value |-> IF monthly_data # <<>>
                    THEN float_round(max0(monthly_data[1][2]), 2) ELSE Zero]
    ELSE predict_fitted(monthly_data, simple_linear_regression(monthly_data))

\* predict_next_month_co2 from the buckets on: the locals at return, value
\* being what is returned
predict_from(monthly_data) ==
    IF Len(monthly_data) < 2
    THEN [fn |-> "predict_next_month_co2", monthly_data |-> monthly_data,
          fitted |-> FALSE, regression |-> NoRegression,
          value |-> IF monthly_data # <<>> THEN monthly_data[1][2] ELSE Zero]
    ELSE predict_fitted(monthly_data, simple_linear_regression(monthly_data))

predict_next_month_co2(acts, now) == predict_from(get_monthly_data(acts, now, 6))

\* variant: the earlier half gets the odd bucket
trend_split_ceil(monthly_data) ==
    IF Len(monthly_data) >= 6
    THEN [earlier |-> column(SubSeq(monthly_data, 1, 3)),
          recent  |-> column(SubSeq(monthly_data, Len(monthly_data) - 2,
                                    Len(monthly_data)))]
    ELSE [earlier |-> column(SubSeq(monthly_data, 1, (Len(monthly_data) + 1) \div 2)),
          recent  |-> column(SubSeq(monthly_data, (Len(monthly_data) + 1) \div 2 + 1,
                                    Len(monthly_data)))]

\* variant: the first 3 and the last 3 buckets from 4 buckets on
trend_split_from4(monthly_data) ==
    IF Len(monthly_data) >= 4
    THEN [earlier |-> column(SubSeq(monthly_data, 1, 3)),
          recent  |-> column(SubSeq(monthly_data, Len(monthly_data) - 2,
                                    Len(monthly_data)))]
    ELSE [earlier |-> column(SubSeq(monthly_data, 1, Len(monthly_data) \div 2)),
          recent  |-> column(SubSeq(monthly_data, Len(monthly_data) \div 2 + 1,
                                    Len(monthly_data)))]

\* the earlier and the recent buckets of calculate_trend
trend_split(monthly_data) ==
    IF Len(monthly_data) >= 6
    THEN [earlier |-> column(SubSeq(monthly_data, 1, 3)),
          recent  |-> column(SubSeq(monthly_data, Len(monthly_data) - 2,
                                    Len(monthly_data)))]
    ELSE [earlier |-> column(SubSeq(monthly_data, 1, Len(monthly_data) \div 2)),
          recent  |-> column(SubSeq(monthly_data, Len(monthly_data) \div 2 + 1,
                                    Len(monthly_data)))]

\* variant: the thresholds belong to 'improving' and 'declining'
trend_of_inclusive(pct_change) ==
    IF float_le(FromInt(10), pct_change) THEN "improving"
    ELSE IF float_le(pct_change, FromInt(-10)) THEN "declining"
    ELSE "stable"

trend_of(pct_change) ==
    IF float_lt(FromInt(10), pct_change) THEN "improving"
    ELSE IF float_lt(pct_change, FromInt(-10)) THEN "declining"
    ELSE "stable"

trend_classified(monthly_data, split, pct_change) ==
    [fn |-> "calculate_trend", monthly_data |-> monthly_data,
     earlier |-> split.earlier, recent |-> split.recent,
     pct_change |-> pct_change, value |-> trend_of(pct_change)]

\* variant: the change is computed unless the earlier average is 0
trend_change_nonzero(monthly_data, split, avg_earlier, avg_recent) ==
    trend_classified(monthly_data, split,
        IF ~IsZero(avg_earlier)
        THEN float_mul(float_truediv(float_sub(avg_recent, avg_earlier),
                                     avg_earlier),
                       FromInt(100))
        ELSE Zero)

trend_change(monthly_data, split, avg_earlier, avg_recent) ==
    trend_classified(monthly_data, split,
        IF float_lt(Zero, avg_earlier)
        THEN float_mul(float_truediv(float_sub(avg_recent, avg_earlier),
                                     avg_earlier),
                       FromInt(100))
        ELSE Zero)

trend_averages(monthly_data, split) ==
    trend_change(monthly_data, split, mean(split.earlier), mean(split.recent))

trend_from(monthly_data) ==
    IF Len(monthly_data) < 3
    THEN [fn |-> "calculate_trend", monthly_data |-> monthly_data,
          earlier |-> <<>>, recent |-> <<>>, pct_change |-> Zero,
          value |-> "stable"]
    ELSE trend_averages(monthly_data, trend_split(monthly_data))

calculate_trend(acts, now) == trend_from(get_monthly_data(acts, now, 6))

data_volume_score(monthly_data) ==
    float_mul(float_min(float_truediv(FromInt(Len(monthly_data)), FromInt(6)),
                        FromInt(1)),
              FromInt(40))

confidence_scored(monthly_data, regression) ==
    [fn |-> "get_confidence_score", monthly_data |-> monthly_data,
     fitted |-> Len(monthly_data) >= 3, regression |-> regression,
     value |-> float_round(
                   float_min(
                       float_add(data_volume_score(monthly_data),
                                 IF Len(monthly_data) >= 3
                                 THEN float_mul(regression.r_squared, FromInt(60))
                                 ELSE Zero),
                       FromInt(100)),
                   1)]

\* variant: the fit counts from 2 buckets on
confidence_from_two(monthly_data) ==
    IF monthly_data = <<>>
    THEN [fn |-> "get_confidence_score", monthly_data |-> monthly_data,
          fitted |-> FALSE, regression |-> NoRegression, value |-> Zero]
    ELSE [fn |-> "get_confidence_score", monthly_data |-> monthly_data,
          fitted |-> Len(monthly_data) >= 2,
          regression |-> simple_linear_regression(monthly_data),
          value |-> float_round(
                        float_min(
                            float_add(data_volume_score(monthly_data),
                                      float_mul(simple_linear_regression(
                                                    monthly_data).r_squared,
                                                FromInt(60))),
                            FromInt(100)),
                        1)]

confidence_from(monthly_data) ==
    IF monthly_data = <<>>
    THEN [fn |-> "get_confidence_score", monthly_data |-> monthly_data,
          fitted |-> FALSE, regression |-> NoRegression, value |-> Zero]
    ELSE confidence_scored(monthly_data,
             IF Len(monthly_data) >= 3
             THEN simple_linear_regression(monthly_data)
             ELSE NoRegression)

get_confidence_score(acts, now) == confidence_from(get_monthly_data(acts, now, 6))

\* the selection of carbon.activity.activity_type: key -> label
activity_type_labels ==
    [electricity |-> "Electricity Usage", fuel |-> "Fuel Consumption",
     paper |-> "Paper Usage", travel |-> "Travel (Car/Transport)",
     waste |-> "Waste Generated", water |-> "Water Usage"]

\* the dict type_totals after the loop over acts
RECURSIVE sum_by_type(_)
sum_by_type(acts) ==
    IF acts = <<>> THEN <<>>
    ELSE dict_add(sum_by_type(SubSeq(acts, 1, Len(acts) - 1)),
                  acts[Len(acts)].activity_type, acts[Len(acts)].co2_saved)

\* variant: the last of the largest
max_of_last(best, item) == IF float_le(best[2], item[2]) THEN item ELSE best

max_of(best, item) == IF float_lt(best[2], item[2]) THEN item ELSE best

\* max(items, key=lambda x: x[1]): the first of the largest
RECURSIVE max_by_value(_)
max_by_value(items) ==
    IF Len(items) = 1 THEN items[1]
    ELSE max_of(max_by_value(SubSeq(items, 1, Len(items) - 1)), items[Len(items)])

\* variant: no type is reported when the largest sum is not positive
top_type_label_positive(type_totals) ==
    [fn |-> "get_top_activity_type", type_totals |-> type_totals,
     value |-> IF float_lt(Zero, max_by_value(type_totals)[2])
               THEN activity_type_labels[max_by_value(type_totals)[1]]
               ELSE FALSE]

top_type_label(type_totals) ==
    [fn |-> "get_top_activity_type", type_totals |-> type_totals,
     value |-> activity_type_labels[max_by_value(type_totals)[1]]]

\* FALSE when there is nothing to report, else the label of the top type
get_top_activity_type(acts) ==
    IF acts = <<>>
    THEN [fn |-> "get_top_activity_type", type_totals |-> <<>>, value |-> FALSE]
    ELSE top_type_label(sum_by_type(acts))

-----------------------------------------------------------------------------
(* Operations.  ret holds the locals at the return of the latest call and  *)
(* is dropped when the records or the clock change.                        *)

NoCall == [fn |-> "none"]

Activity(d, v, t) == [activity_date |-> d, co2_saved |-> v, activity_type |-> t]

\* a carbon.activity of the initiative is stored with the given date, type
\* and co2_saved; it is iterated after the records already there
CreateActivity(a) ==
    /\ activities' = Append(activities, a)
    /\ ret' = NoCall
    /\ UNCHANGED <<today, compensated, data_points>>

\* the clock moves on to a later day
Tick(d) ==
    /\ date_le(today, d) /\ d # today
    /\ today' = d
    /\ ret' = NoCall
    /\ UNCHANGED <<activities, compensated, data_points>>

GetMonthlyData(months) ==
    /\ ret' = [fn |-> "get_monthly_data", months |-> months,
               value |-> get_monthly_data(activities, today, months)]
    /\ UNCHANGED <<today, activities, compensated, data_points>>

SimpleLinearRegression ==
    /\ ret' = [fn |-> "simple_linear_regression",
               value |-> simple_linear_regression(data_points)]
    /\ UNCHANGED <<today, activities, compensated, data_points>>

PredictNextMonthCo2 ==
    /\ ret' = predict_next_month_co2(activities, today)
    /\ UNCHANGED <<today, activities, compensated, data_points>>

CalculateTrend ==
    /\ ret' = calculate_trend(activities, today)
    /\ UNCHANGED <<today, activities, compensated, data_points>>

\* variant: the call leaves the activities in the reverse order
GetTopActivityType_reordering ==
    /\ ret' = get_top_activity_type(activities)
    /\ activities' = [i \in 1..Len(activities) |->
                         activities[Len(activities) + 1 - i]]
    /\ UNCHANGED <<today, compensated, data_points>>

GetTopActivityType ==
    /\ ret' = get_top_activity_type(activities)
    /\ UNCHANGED <<today, activities, compensated, data_points>>

GetConfidenceScore ==
    /\ ret' = get_confidence_score(activities, today)
    /\ UNCHANGED <<today, activities, compensated, data_points>>

-----------------------------------------------------------------------------
(* Spec: the initiative of the worked example, read on 31 March 2024.  Its *)
(* activities are the three of the example and one with negative savings.  *)

MaxActivities == 3

ExampleToday == Date(2024, 3, 31)

ExampleActivities ==
    <<Activity(Date(2024, 1, 15), FromInt(10), "electricity"),
      Activity(Date(2024, 2, 10), FromInt(20), "fuel"),
      Activity(Date(2024, 3, 5), FromInt(30), "paper")>>

NegativeActivities == {Activity(Date(2024, 2, 10), FromInt(-30), "fuel")}

Init ==
    /\ today = ExampleToday
    /\ activities = <<>>
    /\ compensated \in BOOLEAN
    /\ data_points = <<>>
    /\ ret = NoCall

Next ==
    \/ \E a \in {ExampleActivities[i] : i \in 1..3} \cup NegativeActivities :
          Len(activities) < MaxActivities /\ CreateActivity(a)
    \/ GetMonthlyData(6)
    \/ PredictNextMonthCo2
    \/ CalculateTrend
    \/ GetTopActivityType
    \/ GetConfidenceScore

Spec == Init /\ [][Next]_vars

-----------------------------------------------------------------------------
(* SpecWindow: bucketing around the edges of the window.  With today on    *)
(* 31 March 2024 the window of 6 months starts on 30 September 2023 and    *)
(* the window of 1 month on 29 February 2024.                              *)

MaxWindowActivities == 3

WindowDates ==
    {Date(2023, 9, 29), Date(2023, 9, 30), Date(2024, 2, 29),
     Date(2024, 3, 31), Date(2024, 4, 1)}

WindowValues == {FromInt(10), FromInt(-10), Dec(1, 1)}

WindowMonths == {1, 6}

InitWindow ==
    /\ today = ExampleToday
    /\ activities = <<>>
    /\ compensated = FALSE
    /\ data_points = <<>>
    /\ ret = NoCall

NextWindow ==
    \/ \E d \in WindowDates, v \in WindowValues :
          Len(activities) < MaxWindowActivities
              /\ CreateActivity(Activity(d, v, "electricity"))
    \/ \E months \in WindowMonths : GetMonthlyData(months)

SpecWindow == InitWindow /\ [][NextWindow]_vars

-----------------------------------------------------------------------------
(* SpecTimeline: an initiative that logs one activity at each month end,   *)
(* from 30 September 2023 on, and is read at any time.                     *)

MaxTimelineActivities == 8

TimelineDates ==
    <<Date(2023, 9, 30), Date(2023, 10, 31), Date(2023, 11, 30),
      Date(2023, 12, 31), Date(2024, 1, 31), Date(2024, 2, 29),
      Date(2024, 3, 31), Date(2024, 4, 30)>>

TimelineValues == {FromInt(10), FromInt(30)}

LoggedToday ==
    activities # <<>> /\ activities[Len(activities)].activity_date = today

InitTimeline ==
    /\ today = TimelineDates[1]
    /\ activities = <<>>
    /\ compensated = FALSE
    /\ data_points = <<>>
    /\ ret = NoCall

NextTimeline ==
    \/ \E v \in TimelineValues :
          /\ ~LoggedToday
          /\ Len(activities) < MaxTimelineActivities
          /\ CreateActivity(Activity(today, v, "electricity"))
    \/ \E i \in 1..(Len(TimelineDates) - 1) :
          LoggedToday /\ today = TimelineDates[i] /\ Tick(TimelineDates[i + 1])
    \/ GetMonthlyData(6)
    \/ CalculateTrend

SpecTimeline == InitTimeline /\ [][NextTimeline]_vars

-----------------------------------------------------------------------------
(* SpecRegression: simple_linear_regression on short lists of points, the  *)
(* x ascending as in the buckets, or all equal.                            *)

MaxPoints == 3

PointXs == {0, 4, 5}

PointYs == {FromInt(-1), FromInt(0), FromInt(1), FromInt(2)}

PointLists ==
    UNION {[1..n -> PointXs \X PointYs] : n \in 0..MaxPoints}

AscendingOrEqual(points) ==
    \/ \A i \in 1..(Len(points) - 1) : points[i][1] < points[i + 1][1]
    \/ \A i \in 1..(Len(points) - 1) : points[i][1] = points[i + 1][1]

InitRegression ==
    /\ today = ExampleToday
    /\ activities = <<>>
    /\ compensated \in BOOLEAN
    /\ data_points \in {points \in PointLists : AscendingOrEqual(points)}
    /\ ret = NoCall

NextRegression == SimpleLinearRegression

SpecRegression == InitRegression /\ [][NextRegression]_vars

-----------------------------------------------------------------------------
(* SpecSeries: a series of at most one activity a month in January,        *)
(* February and March 2024, logged in the order of the dates and read on   *)
(* 31 March 2024.                                                          *)

MaxSeriesActivities == 3

SeriesDates == <<Date(2024, 1, 15), Date(2024, 2, 10), Date(2024, 3, 5)>>

SeriesValues ==
    {FromInt(-10), FromInt(0), Dec(125, 3), FromInt(9), FromInt(10), FromInt(11)}

\* date d is later than the dates of the activities
AfterActivities(d) ==
    \A i \in 1..Len(activities) :
        date_le(activities[i].activity_date, d) /\ activities[i].activity_date # d

NextSeries ==
    \/ \E i \in 1..Len(SeriesDates), v \in SeriesValues :
          /\ Len(activities) < MaxSeriesActivities
          /\ AfterActivities(SeriesDates[i])
          /\ CreateActivity(Activity(SeriesDates[i], v, "electricity"))
    \/ PredictNextMonthCo2
    \/ CalculateTrend
    \/ GetConfidenceScore

SpecSeries == Init /\ [][NextSeries]_vars

-----------------------------------------------------------------------------
(* SpecNearFlat: activities of 0.1, 0.7 and 0.8 in January, February and   *)
(* March 2024, logged in the order of the dates and read on 31 March 2024. *)
(* 0.1 + 0.7 is 0.7999999999999999, the float next below 0.8.              *)

MaxNearFlatActivities == 4

NearFlatValues == {Dec(1, 1), Dec(7, 1), Dec(8, 1)}

\* no activity is dated after d
NotBeforeActivities(d) ==
    \A i \in 1..Len(activities) : date_le(activities[i].activity_date, d)

NextNearFlat ==
    \/ \E i \in 1..Len(SeriesDates), v \in NearFlatValues :
          /\ Len(activities) < MaxNearFlatActivities
          /\ NotBeforeActivities(SeriesDates[i])
          /\ CreateActivity(Activity(SeriesDates[i], v, "electricity"))
    \/ GetConfidenceScore

SpecNearFlat == Init /\ [][NextNearFlat]_vars

-----------------------------------------------------------------------------
(* SpecOrder: activities of one day whose sum depends on the order of the  *)
(* additions, and one activity older than the window, in any order.        *)

MaxOrderActivities == 3

OrderActivities ==
    {Activity(Date(2024, 3, 5), Dec(1, 1), "electricity"),
     Activity(Date(2024, 3, 5), FromInt(10), "electricity"),
     Activity(Date(2024, 3, 5), FromInt(-10), "fuel"),
     Activity(Date(2023, 9, 29), FromInt(10), "paper")}

NextOrder ==
    \/ \E a \in OrderActivities :
          Len(activities) < MaxOrderActivities /\ CreateActivity(a)
    \/ PredictNextMonthCo2
    \/ CalculateTrend
    \/ GetTopActivityType
    \/ GetConfidenceScore

SpecOrder == Init /\ [][NextOrder]_vars

-----------------------------------------------------------------------------
(* carbon.initiative: _compute_ai_predictions.  The four fields are        *)
(* computed and not stored: ret holds them after a pass.  The pass reads   *)
(* the clock in each of its three calls that use the window, so the day of *)
(* each call is an input; so is the call that raises, if one does.         *)

\* an activity_date that is not set
NoDate == Date(0, 0, 0)

\* the comparison activity_date >= start_date raises TypeError on the first
\* activity without a date; failing is the call that raises for another
\* reason (0: none)
raise_at(acts, failing) ==
    IF \E i \in 1..Len(acts) : acts[i].activity_date = NoDate THEN 1 ELSE failing

\* the values of the else branch and of the except branch
DefaultPredictions ==
    [predicted_next_month_co2 |-> Zero, trend_indicator |-> "stable",
     top_activity_type |-> FALSE, prediction_confidence |-> Zero]

\* variant: the except branch leaves what the try block has assigned
except_keeps(assigned) == assigned

\* the except branch: the four fields get their defaults
except_resets(assigned) == DefaultPredictions

\* the fields as the try block leaves them when call number raised raises
\* (0: none): the calls before it have assigned theirs
try_assigned(predicted, trend, top, confidence, raised) ==
    [predicted_next_month_co2 |->
         IF raised = 0 \/ raised > 1 THEN predicted.value ELSE Zero,
     trend_indicator |->
         IF raised = 0 \/ raised > 2 THEN trend.value ELSE "stable",
     top_activity_type |->
         IF raised = 0 \/ raised > 3 THEN top.value ELSE FALSE,
     prediction_confidence |->
         IF raised = 0 THEN confidence.value ELSE Zero]

\* the pass for an initiative with 2 activities or more
predictions_tried(predicted, trend, top, confidence, raised) ==
    IF raised = 0
    THEN [fn |-> "_compute_ai_predictions", called |-> TRUE, raised |-> 0,
          fields |-> try_assigned(predicted, trend, top, confidence, 0),
          buckets |-> <<predicted.monthly_data, trend.monthly_data,
                        confidence.monthly_data>>]
    ELSE [fn |-> "_compute_ai_predictions", called |-> TRUE, raised |-> raised,
          fields |-> except_resets(
                         try_assigned(predicted, trend, top, confidence, raised)),
          buckets |-> <<>>]

\* variant: the pass calls the engine for a single activity as well
compute_ai_predictions_any(acts, day1, day2, day3, raised) ==
    IF Len(acts) >= 1
    THEN predictions_tried(predict_next_month_co2(acts, day1),
                           calculate_trend(acts, day2),
                           get_top_activity_type(acts),
                           get_confidence_score(acts, day3), raised)
    ELSE [fn |-> "_compute_ai_predictions", called |-> FALSE, raised |-> 0,
          fields |-> DefaultPredictions, buckets |-> <<>>]

\* _compute_ai_predictions for one initiative, the clock showing day1, day2
\* and day3 in predict_next_month_co2, calculate_trend and
\* get_confidence_score
compute_ai_predictions(acts, day1, day2, day3, raised) ==
    IF Len(acts) >= 2
    THEN predictions_tried(predict_next_month_co2(acts, day1),
                           calculate_trend(acts, day2),
                           get_top_activity_type(acts),
                           get_confidence_score(acts, day3), raised)
    ELSE [fn |-> "_compute_ai_predictions", called |-> FALSE, raised |-> 0,
          fields |-> DefaultPredictions, buckets |-> <<>>]

ComputeAiPredictions(day1, day2, day3, failing) ==
    /\ date_le(today, day1) /\ date_le(day1, day2) /\ date_le(day2, day3)
    /\ ret' = compute_ai_predictions(activities, day1, day2, day3,
                                     raise_at(activities, failing))
    /\ today' = day3
    /\ UNCHANGED <<activities, compensated, data_points>>

\* SpecInitiative: an initiative read in the night from 31 March to 1 April
\* 2024, with an activity on the first day of the window of 31 March, one
\* in March and one without a date.

MaxInitiativeActivities == 3

InitiativeDays == {Date(2024, 3, 31), Date(2024, 4, 1)}

InitiativeActivities ==
    {Activity(Date(2023, 9, 30), FromInt(10), "electricity"),
     Activity(Date(2024, 3, 5), FromInt(30), "paper"),
     Activity(NoDate, FromInt(20), "fuel")}

NextInitiative ==
    \/ \E a \in InitiativeActivities :
          Len(activities) < MaxInitiativeActivities /\ CreateActivity(a)
    \/ \E day1, day2, day3 \in InitiativeDays, failing \in 0..4 :
          ComputeAiPredictions(day1, day2, day3, failing)

SpecInitiative == InitWindow /\ [][NextInitiative]_vars

-----------------------------------------------------------------------------
(* carbon.goal: the stored computed fields of a goal of the initiative,    *)
(* computed one after the other when the goal is written.  ret holds the   *)
(* goal after _compute_state.                                              *)

\* the activities counted by _compute_actual: dated, and not after target_date
up_to_target(acts, target_date) ==
    SelectSeq(acts, LAMBDA a : /\ a.activity_date # NoDate
                               /\ date_le(a.activity_date, target_date))

\* _compute_actual: sum(activities.mapped('co2_saved'))
compute_actual(acts, target_date) ==
    IF target_date # NoDate
    THEN builtin_sum([i \in 1..Len(up_to_target(acts, target_date)) |->
                         up_to_target(acts, target_date)[i].co2_saved])
    ELSE Zero

\* _compute_achievement: round(actual / target * 100, 2), 0.0 without a target
compute_achievement(actual, target) ==
    IF float_lt(Zero, target)
    THEN float_round(float_mul(float_truediv(actual, target), FromInt(100)), 2)
    ELSE Zero

\* _compute_state: the first branch that applies
compute_state(achievement, actual, target_date, now) ==
    IF float_le(FromInt(100), achievement) THEN "achieved"
    ELSE IF IsZero(actual) THEN "pending"
    ELSE IF target_date # NoDate /\ date_le(target_date, now) /\ target_date # now
         THEN "missed"
    ELSE "in_progress"

goal_with_state(target_date, target, actual, achievement, now) ==
    [fn |-> "_compute_state", target_date |-> target_date,
     target_co2_reduction |-> target, actual_co2_reduction |-> actual,
     achievement_percentage |-> achievement,
     state |-> compute_state(achievement, actual, target_date, now)]

goal_with_achievement(target_date, target, actual, now) ==
    goal_with_state(target_date, target, actual,
                    compute_achievement(actual, target), now)

\* a goal of the initiative is written with the given deadline and target:
\* actual_co2_reduction, achievement_percentage and state are computed
WriteGoal(target_date, target) ==
    /\ ret' = goal_with_achievement(target_date, target,
                                    compute_actual(activities, target_date), today)
    /\ UNCHANGED <<today, activities, compensated, data_points>>

MaxGoalActivities == 3

GoalActivities ==
    {Activity(Date(2024, 1, 15), FromInt(10), "electricity"),
     Activity(Date(2024, 3, 5), FromInt(30), "paper"),
     Activity(Date(2024, 1, 15), FromInt(-10), "fuel")}

\* deadlines before and after the day of Init
GoalTargetDates == {Date(2024, 2, 29), Date(2024, 6, 30)}

\* _check_target: the target is positive
GoalTargets == {FromInt(10), FromInt(40)}

NextGoal ==
    \/ \E a \in GoalActivities :
          Len(activities) < MaxGoalActivities /\ CreateActivity(a)
    \/ \E target_date \in GoalTargetDates, target \in GoalTargets :
          WriteGoal(target_date, target)

SpecGoal == Init /\ [][NextGoal]_vars

-----------------------------------------------------------------------------
(* Properties.                                                             *)

\* end minus n calendar months, the day cut to the length of the month
MonthsBefore(end, n) ==
    LET k == end.year * 12 + (end.month - 1) - n
        y == k \div 12
        m == (k % 12) + 1
    IN  Date(y, m, IF end.day < DaysInMonth(y, m)
                   THEN end.day ELSE DaysInMonth(y, m))

\* the activities of the window of n months, in the order of iteration
Retained(n) ==
    SelectSeq(activities,
              LAMBDA a : /\ date_le(MonthsBefore(today, n), a.activity_date)
                         /\ date_le(a.activity_date, today))

\* the month index of activity a in the window of n months
MonthIndex(a, n) ==
    (a.activity_date.year - MonthsBefore(today, n).year) * 12
        + (a.activity_date.month - MonthsBefore(today, n).month)

Indices(items) == {items[j][1] : j \in 1..Len(items)}

F10 == FromInt(10)
F20 == FromInt(20)
F30 == FromInt(30)

IsExample ==
    /\ today = ExampleToday
    /\ Len(activities) = 3
    /\ {activities[i] : i \in 1..3} = {ExampleActivities[i] : i \in 1..3}

\* C1: predict_next_month_co2 never returns a negative value, whether it
\* fits a line (2 or more buckets) or returns the single bucket's total.
PredictionNeverNegative ==
    ret.fn = "predict_next_month_co2" => float_le(Zero, ret.value)

\* C2 as stated: for the example (2024-01-15, 10), (2024-02-10, 20),
\* (2024-03-05, 30) read on 2024-03-31 the buckets are (0,10), (1,20),
\* (2,30), the fit has slope 10, intercept 10 and r_squared 1, and the
\* prediction is 40.0.
ExampleAsStated ==
    IsExample =>
        /\ ret.fn = "get_monthly_data" /\ ret.months = 6 =>
               ret.value = <<<<0, F10>>, <<1, F20>>, <<2, F30>>>>
        /\ ret.fn = "predict_next_month_co2" =>
               /\ ret.monthly_data = <<<<0, F10>>, <<1, F20>>, <<2, F30>>>>
               /\ ret.regression = [slope |-> F10, intercept |-> F10,
                                    r_squared |-> FromInt(1)]
               /\ ret.value = FromInt(40)

\* C2: for the example (2024-01-15, 10), (2024-02-10, 20), (2024-03-05, 30)
\* read on 2024-03-31 the window starts on 2023-09-30, so the buckets are
\* (4,10), (5,20), (6,30); the fit has slope 10, intercept -30 and
\* r_squared 1, and the prediction is 10 * 7 - 30 = 40.0.
ExampleFromWindowStart ==
    IsExample =>
        /\ ret.fn = "get_monthly_data" /\ ret.months = 6 =>
               ret.value = <<<<4, F10>>, <<5, F20>>, <<6, F30>>>>
        /\ ret.fn = "predict_next_month_co2" =>
               /\ ret.monthly_data = <<<<4, F10>>, <<5, F20>>, <<6, F30>>>>
               /\ ret.regression = [slope |-> F10, intercept |-> FromInt(-30),
                                    r_squared |-> FromInt(1)]
               /\ ret.value = FromInt(40)

ExamplePredicted == IsExample /\ ret.fn = "predict_next_month_co2"

\* C3: get_monthly_data with window N keeps exactly the activities with
\* start <= date <= today, start being today minus N calendar months, gives
\* each the index (year - start.year) * 12 + (month - start.month), and the
\* total of a bucket is the sum, from 0.0 and in the order of iteration, of
\* the co2_saved of the kept activities with its index.
BucketsOfWindow ==
    ret.fn = "get_monthly_data" =>
        LET kept == Retained(ret.months)
            of(k) == SelectSeq(kept, LAMBDA a : MonthIndex(a, ret.months) = k)
        IN  /\ \A i \in 1..Len(kept) :
                   MonthIndex(kept[i], ret.months) \in Indices(ret.value)
            /\ \A j \in 1..Len(ret.value) :
                   /\ of(ret.value[j][1]) # <<>>
                   /\ ret.value[j][2] =
                          sum_plain([i \in 1..Len(of(ret.value[j][1])) |->
                                        of(ret.value[j][1])[i].co2_saved])

\* one activity on the first day of the window, one the day before and one
\* the day after today: only the first is counted
WindowEdgesRead ==
    /\ ret.fn = "get_monthly_data" /\ ret.months = 6
    /\ Len(activities) = 3
    /\ activities[1].activity_date = Date(2023, 9, 29)
    /\ activities[2].activity_date = Date(2023, 9, 30)
    /\ activities[3].activity_date = Date(2024, 4, 1)
    /\ ret.value = <<<<0, activities[2].co2_saved>>>>

\* C4: the month indices of the sequence returned by get_monthly_data are
\* strictly ascending, hence pairwise distinct, whatever the order in which
\* the activities are iterated.
IndicesAscending ==
    ret.fn = "get_monthly_data" =>
        \A i, j \in 1..Len(ret.value) :
            i < j => ret.value[i][1] < ret.value[j][1]

\* three months read from activities iterated latest first
DescendingRead ==
    /\ ret.fn = "get_monthly_data"
    /\ Len(activities) = 3 /\ Len(ret.value) = 3
    /\ activities[1].activity_date = Date(2024, 3, 31)
    /\ activities[2].activity_date = Date(2024, 2, 29)
    /\ activities[3].activity_date = Date(2023, 9, 30)

\* C5: get_monthly_data has an entry for index i exactly when a kept
\* activity maps to i: no entry for a month without activities, an entry
\* with total 0 for a month whose activities sum to 0, and the empty
\* sequence when nothing is kept.
BucketsSparse ==
    ret.fn = "get_monthly_data" =>
        LET kept == Retained(ret.months)
            used == {MonthIndex(kept[i], ret.months) : i \in 1..Len(kept)}
        IN  /\ Indices(ret.value) = used
            /\ Len(ret.value) = Cardinality(used)
            /\ kept = <<>> => ret.value = <<>>

\* a month that sums to 0 is there, the months after it without activities
\* are not
ZeroMonthAndGap ==
    /\ ret.fn = "get_monthly_data"
    /\ Len(ret.value) = 2
    /\ ret.value[1][2] = Zero
    /\ ret.value[2][1] > ret.value[1][1] + 1

\* C6: for a window of N months every month index of get_monthly_data lies
\* in 0..N, so there are at most N + 1 entries.
IndicesInWindow ==
    ret.fn = "get_monthly_data" =>
        /\ \A j \in 1..Len(ret.value) :
               0 <= ret.value[j][1] /\ ret.value[j][1] <= ret.months
        /\ Len(ret.value) <= ret.months + 1

\* the window of 6 months read with 7 buckets, an older activity left out
SevenBuckets ==
    /\ ret.fn = "get_monthly_data" /\ ret.months = 6
    /\ Len(ret.value) = 7
    /\ Len(activities) = 8

\* C7: predict_next_month_co2 returns 0.0 without buckets, the total of the
\* only bucket when there is one, and else max(0, slope * (last + 1) +
\* intercept) rounded to 2 decimals, last being the largest month index
\* with data and slope, intercept the fit of the buckets.
PredictionContract ==
    ret.fn = "predict_next_month_co2" =>
        LET buckets == ret.monthly_data
            last == CHOOSE k \in Indices(buckets) :
                        \A l \in Indices(buckets) : l <= k
            fit  == simple_linear_regression(buckets)
        IN  /\ Indices(buckets) =
                   {MonthIndex(Retained(6)[i], 6) : i \in 1..Len(Retained(6))}
            /\ Len(buckets) = 0 => ret.value = Zero
            /\ Len(buckets) = 1 => ret.value = buckets[1][2]
            /\ Len(buckets) >= 2 =>
                   ret.value =
                       float_round(
                           max0(float_add(float_mul(fit.slope, FromInt(last + 1)),
                                          fit.intercept)),
                           2)

\* a positive prediction from January and February, read in March
PredictedBeforeReferenceMonth ==
    /\ ret.fn = "predict_next_month_co2"
    /\ Len(ret.monthly_data) = 2
    /\ ret.monthly_data[2][1] = 5
    /\ float_lt(Zero, ret.value)

AllEqual(xs) == \A i, j \in 1..Len(xs) : xs[i] = xs[j]

\* C8: simple_linear_regression returns 0 <= r_squared <= 1, and exactly 0
\* for fewer than 2 points, for equal x and for equal y.
RSquaredInUnitInterval ==
    ret.fn = "simple_linear_regression" =>
        /\ float_le(Zero, ret.value.r_squared)
        /\ float_le(ret.value.r_squared, FromInt(1))
        /\ (\/ Len(data_points) < 2
            \/ AllEqual([i \in 1..Len(data_points) |-> data_points[i][1]])
            \/ AllEqual(column(data_points))) => ret.value.r_squared = Zero

\* C9: simple_linear_regression returns a result with the fields slope,
\* intercept and r_squared for every input: all three 0 for fewer than 2
\* points, slope 0 and intercept mean(y) for 2 or more points of equal x.
DegenerateInputAnswered ==
    ret.fn = "simple_linear_regression" =>
        /\ DOMAIN ret.value = {"slope", "intercept", "r_squared"}
        /\ Len(data_points) < 2 =>
               ret.value = [slope |-> Zero, intercept |-> Zero, r_squared |-> Zero]
        /\ (/\ Len(data_points) >= 2
            /\ AllEqual([i \in 1..Len(data_points) |-> data_points[i][1]])) =>
               /\ ret.value.slope = Zero
               /\ ret.value.intercept = mean(column(data_points))

\* three points of equal x and different y
EqualXFitted ==
    /\ ret.fn = "simple_linear_regression"
    /\ Len(data_points) = 3
    /\ AllEqual([i \in 1..3 |-> data_points[i][1]])
    /\ ~AllEqual(column(data_points))

\* C10: calculate_trend returns 'stable' for fewer than 3 buckets; for n >= 6
\* buckets earlier is the first 3 and recent the last 3, for 3 <= n < 6
\* earlier is the first floor(n / 2) and recent the rest, so earlier is
\* never longer than recent.
TrendSplit ==
    ret.fn = "calculate_trend" =>
        LET n      == Len(ret.monthly_data)
            totals == column(ret.monthly_data)
        IN  /\ n < 3 => ret.value = "stable"
            /\ n >= 6 => /\ ret.earlier = SubSeq(totals, 1, 3)
                         /\ ret.recent = SubSeq(totals, n - 2, n)
            /\ (n >= 3 /\ n < 6) =>
                   /\ ret.earlier = SubSeq(totals, 1, n \div 2)
                   /\ ret.recent = SubSeq(totals, n \div 2 + 1, n)
            /\ Len(ret.earlier) <= Len(ret.recent)

\* five buckets split 2 and 3
FiveBucketsSplit ==
    /\ ret.fn = "calculate_trend"
    /\ Len(ret.monthly_data) = 5
    /\ Len(ret.earlier) = 2 /\ Len(ret.recent) = 3

\* C11: calculate_trend returns 'improving' exactly when pct_change > 10,
\* 'declining' exactly when pct_change < -10 and 'stable' otherwise, so a
\* change of exactly 10 or -10 is 'stable'.
TrendThresholds ==
    ret.fn = "calculate_trend" =>
        /\ ret.value \in {"improving", "declining", "stable"}
        /\ ret.value = "improving" <=> float_lt(FromInt(10), ret.pct_change)
        /\ ret.value = "declining" <=> float_lt(ret.pct_change, FromInt(-10))

\* from 10 to an average of 11: a change of exactly 10
TrendAtThreshold ==
    /\ ret.fn = "calculate_trend"
    /\ ret.earlier = <<FromInt(10)>>
    /\ ret.pct_change = FromInt(10)
    /\ ret.value = "stable"

\* C12: with 3 or more buckets pct_change is (mean(recent) - mean(earlier))
\* / mean(earlier) * 100 when mean(earlier) > 0 and 0 otherwise, so the
\* trend is 'stable' whenever the earlier mean is zero or negative.
TrendPercentage ==
    (ret.fn = "calculate_trend" /\ Len(ret.monthly_data) >= 3) =>
        LET avg_earlier == mean(ret.earlier)
            avg_recent  == mean(ret.recent)
        IN  /\ float_lt(Zero, avg_earlier) =>
                   ret.pct_change =
                       float_mul(float_truediv(float_sub(avg_recent, avg_earlier),
                                               avg_earlier),
                                 FromInt(100))
            /\ ~float_lt(Zero, avg_earlier) =>
                   ret.pct_change = Zero /\ ret.value = "stable"

\* from -10 to an average of 11
NegativeEarlierStable ==
    /\ ret.fn = "calculate_trend"
    /\ ret.earlier = <<FromInt(-10)>>
    /\ ret.recent = <<FromInt(11), FromInt(11)>>
    /\ ret.value = "stable"

\* C13: get_confidence_score returns a value in [0, 100].
ConfidenceInRange ==
    ret.fn = "get_confidence_score" =>
        float_le(Zero, ret.value) /\ float_le(ret.value, FromInt(100))

\* C14: get_confidence_score is min(bucket_count / 6, 1) * 40, plus
\* r_squared * 60 from 3 buckets on, capped at 100 and rounded to 1 decimal;
\* with 1 bucket it is 6.7 and with 2 buckets 13.3, whatever the values.
ConfidenceFormula ==
    ret.fn = "get_confidence_score" =>
        LET n      == Cardinality({MonthIndex(Retained(6)[i], 6) :
                                      i \in 1..Len(Retained(6))})
            volume == float_mul(float_min(float_truediv(FromInt(n), FromInt(6)),
                                          FromInt(1)),
                                FromInt(40))
            fit    == IF n >= 3
                      THEN float_mul(simple_linear_regression(
                                         ret.monthly_data).r_squared,
                                     FromInt(60))
                      ELSE Zero
        IN  /\ Len(ret.monthly_data) = n
            /\ ret.value = float_round(float_min(float_add(volume, fit),
                                                 FromInt(100)), 1)
            /\ n = 1 => ret.value = Dec(67, 1)
            /\ n = 2 => ret.value = Dec(133, 1)

\* two buckets of different totals
TwoBucketsScored ==
    /\ ret.fn = "get_confidence_score"
    /\ Len(ret.monthly_data) = 2
    /\ ret.monthly_data[1][2] # ret.monthly_data[2][2]
    /\ ret.value = Dec(133, 1)

\* C15: of two bucket sequences with the same r_squared the longer one does
\* not score less (score(m) <= score(n) for bucket counts m <= n), and the
\* volume part is 40 from 6 buckets on.  The shorter sequences taken here
\* are the first buckets of the sequence scored.
ConfidenceMonotone ==
    ret.fn = "get_confidence_score" =>
        /\ \A m \in 1..Len(ret.monthly_data) :
              simple_linear_regression(SubSeq(ret.monthly_data, 1, m)).r_squared
                      = simple_linear_regression(ret.monthly_data).r_squared
                  => float_le(confidence_from(SubSeq(ret.monthly_data, 1, m)).value,
                              ret.value)
        /\ Len(ret.monthly_data) >= 6 =>
              data_volume_score(ret.monthly_data) = FromInt(40)

\* the activities of type t, in the order of iteration
OfType(t) == SelectSeq(activities, LAMBDA a : a.activity_type = t)

\* the co2_saved of the activities of type t, added one after the other
TotalOfType(t) == sum_plain([i \in 1..Len(OfType(t)) |-> OfType(t)[i].co2_saved])

\* the place of the first activity of type t in the iteration
FirstOfType(t) ==
    CHOOSE i \in 1..Len(activities) :
        /\ activities[i].activity_type = t
        /\ \A j \in 1..(i - 1) : activities[j].activity_type # t

\* C16: get_top_activity_type returns the label of the activity type with the
\* largest sum of co2_saved; among the types that tie for the largest sum it
\* returns the one whose first activity is iterated first; without
\* activities it returns False.
TopActivityType ==
    ret.fn = "get_top_activity_type" =>
        IF activities = <<>> THEN ret.value = FALSE
        ELSE LET types == {activities[i].activity_type : i \in 1..Len(activities)}
             IN  \E t \in types :
                     /\ ret.value = activity_type_labels[t]
                     /\ \A u \in types :
                           /\ float_le(TotalOfType(u), TotalOfType(t))
                           /\ float_le(TotalOfType(t), TotalOfType(u))
                                  => FirstOfType(t) <= FirstOfType(u)

\* fuel with 20 and then electricity with 10 + 10: the tie goes to fuel
TieToFirstType ==
    /\ ret.fn = "get_top_activity_type"
    /\ ret.type_totals = <<<<"fuel", F20>>, <<"electricity", F20>>>>
    /\ ret.value = "Fuel Consumption"

\* C17: the engine answers on sparse data.  Without an activity in the
\* window of 6 months (no activity at all, or none inside),
\* predict_next_month_co2 returns 0.0, calculate_trend 'stable' and
\* get_confidence_score 0.0; get_top_activity_type returns False for an
\* initiative without activities; the mean is taken of a non-empty list and
\* the line is fitted on 2 or more buckets only.
SparseDataAnswered ==
    /\ Retained(6) = <<>> =>
          /\ ret.fn = "predict_next_month_co2" => ~ret.fitted /\ ret.value = Zero
          /\ ret.fn = "calculate_trend" => ret.value = "stable"
          /\ ret.fn = "get_confidence_score" => ~ret.fitted /\ ret.value = Zero
    /\ activities = <<>> =>
          (ret.fn = "get_top_activity_type" => ret.value = FALSE)
    /\ ret.fn = "calculate_trend" =>
          IF Len(ret.monthly_data) < 3
          THEN ret.value = "stable"
          ELSE ret.earlier # <<>> /\ ret.recent # <<>>
    /\ ret.fn = "predict_next_month_co2" =>
          (ret.fitted <=> Len(ret.monthly_data) >= 2)

\* the only activity lies a day before the window
OutsideWindowPredicted ==
    /\ ret.fn = "predict_next_month_co2"
    /\ activities # <<>>
    /\ Retained(6) = <<>>
    /\ ret.monthly_data = <<>>
    /\ ret.value = Zero

\* the activities of the window of 6 months fall into one month
OneBucket ==
    Cardinality({MonthIndex(Retained(6)[i], 6) : i \in 1..Len(Retained(6))}) = 1

\* C18: when the activities of the window fall into exactly one bucket,
\* predict_next_month_co2 returns the total of the bucket as it is (not
\* fitted, not clamped, not rounded), calculate_trend returns 'stable' and
\* get_confidence_score returns 6.7.
SingleBucketAnswered ==
    OneBucket =>
        /\ ret.fn = "predict_next_month_co2" =>
              /\ ~ret.fitted
              /\ ret.value = sum_plain([i \in 1..Len(Retained(6)) |->
                                           Retained(6)[i].co2_saved])
        /\ ret.fn = "calculate_trend" => ret.value = "stable"
        /\ ret.fn = "get_confidence_score" =>
              ~ret.fitted /\ ret.value = Dec(67, 1)

\* 0.1 + 10 - 10 in one month: the total 0.09999999999999964 is returned
SingleBucketUnrounded ==
    /\ ret.fn = "predict_next_month_co2"
    /\ OneBucket
    /\ Len(Retained(6)) = 3
    /\ ret.value # float_round(ret.value, 2)

\* the buckets read are 2 or more with one and the same total
FlatSeries ==
    /\ ret.fn \in {"predict_next_month_co2", "calculate_trend"}
    /\ Len(ret.monthly_data) >= 2
    /\ \A i \in 1..Len(ret.monthly_data) :
          ret.monthly_data[i][2] = ret.monthly_data[1][2]

\* C19 as stated: for a flat series (2 or more buckets with the same total
\* v) the regression has slope 0 and r_squared 0, predict_next_month_co2
\* returns v and calculate_trend returns 'stable'.
FlatSeriesAsStated ==
    FlatSeries =>
        /\ ret.fn = "predict_next_month_co2" =>
              /\ ret.regression.slope = Zero
              /\ ret.regression.r_squared = Zero
              /\ ret.value = ret.monthly_data[1][2]
        /\ ret.fn = "calculate_trend" => ret.value = "stable"

\* C19: for a flat series (2 or more buckets with the same total v) the
\* regression has slope 0, intercept v and r_squared 0,
\* predict_next_month_co2 returns v clamped at 0 and rounded to 2 decimals,
\* and calculate_trend returns 'stable'.
FlatSeriesClamped ==
    FlatSeries =>
        /\ ret.fn = "predict_next_month_co2" =>
              /\ ret.regression.slope = Zero
              /\ ret.regression.intercept = ret.monthly_data[1][2]
              /\ ret.regression.r_squared = Zero
              /\ ret.value = float_round(max0(ret.monthly_data[1][2]), 2)
        /\ ret.fn = "calculate_trend" => ret.value = "stable"

\* three months of -10 each: the prediction is 0.0
FlatNegativePredicted ==
    /\ ret.fn = "predict_next_month_co2"
    /\ FlatSeries
    /\ Len(ret.monthly_data) = 3
    /\ ret.monthly_data[1][2] = FromInt(-10)
    /\ ret.value = Zero

\* the activities iterated in the order p, a permutation of their places
Reordered(p) == [i \in 1..Len(activities) |-> activities[p[i]]]

\* two types share the largest total of the latest get_top_activity_type
TopTied ==
    \E i, j \in 1..Len(ret.type_totals) :
        /\ i # j
        /\ ret.type_totals[i][2] = ret.type_totals[j][2]
        /\ \A k \in 1..Len(ret.type_totals) :
              float_le(ret.type_totals[k][2], ret.type_totals[i][2])

\* C20: predict_next_month_co2, calculate_trend, get_confidence_score and
\* get_top_activity_type return the same result for the same set of
\* activities and the same day, in whatever order the activities are stored
\* or iterated (but for the tie-break of get_top_activity_type).
OrderIndependent ==
    \A p \in Permutations(1..Len(activities)) :
        /\ ret.fn = "predict_next_month_co2" =>
              predict_next_month_co2(Reordered(p), today).value = ret.value
        /\ ret.fn = "calculate_trend" =>
              calculate_trend(Reordered(p), today).value = ret.value
        /\ ret.fn = "get_confidence_score" =>
              get_confidence_score(Reordered(p), today).value = ret.value
        /\ ret.fn = "get_top_activity_type" =>
              \/ activities = <<>>
              \/ TopTied
              \/ get_top_activity_type(Reordered(p)).value = ret.value

\* what the engine function named fn returns for the records as they are
CallOnRecords(fn) ==
    CASE fn = "get_monthly_data" ->
             [fn |-> fn, months |-> 6,
              value |-> get_monthly_data(activities, today, 6)]
      [] fn = "predict_next_month_co2" -> predict_next_month_co2(activities, today)
      [] fn = "calculate_trend" -> calculate_trend(activities, today)
      [] fn = "get_top_activity_type" -> get_top_activity_type(activities)
      [] fn = "get_confidence_score" -> get_confidence_score(activities, today)

IsDefault(fields) ==
    /\ fields.predicted_next_month_co2 = Zero
    /\ fields.trend_indicator = "stable"
    /\ ToString(fields.top_activity_type) = "FALSE"
    /\ fields.prediction_confidence = Zero

\* the four fields hold what the engine returns for the buckets of the pass
IsFromEngine(fields, buckets) ==
    /\ fields.predicted_next_month_co2 = predict_from(buckets[1]).value
    /\ fields.trend_indicator = trend_from(buckets[2]).value
    /\ ToString(fields.top_activity_type)
           = ToString(get_top_activity_type(activities).value)
    /\ fields.prediction_confidence = confidence_from(buckets[3]).value

SomeDateMissing ==
    \E i \in 1..Len(activities) : activities[i].activity_date = NoDate

\* C22: an activity without a date makes the pass fail: it is looked at and
\* the failure is not replaced by the default outputs.
InvalidObservationFailsFast ==
    (ret.fn = "_compute_ai_predictions" /\ SomeDateMissing) =>
        /\ ret.called
        /\ ret.raised # 0
        /\ ~IsDefault(ret.fields)

\* C23: after _compute_ai_predictions the four fields are all the values
\* returned by the engine or all the defaults; when a call of the engine
\* raises, no value assigned before it is left.
NoPartialResults ==
    ret.fn = "_compute_ai_predictions" =>
        IF ret.called /\ ret.raised = 0
        THEN IsFromEngine(ret.fields, ret.buckets)
        ELSE IsDefault(ret.fields)

\* the third call raises after a prediction other than 0.0 has been assigned
FailedPassReset ==
    /\ ret.fn = "_compute_ai_predictions"
    /\ ret.called
    /\ ret.raised = 3
    /\ ~SomeDateMissing
    /\ predict_next_month_co2(activities, today).value # Zero
    /\ IsDefault(ret.fields)

\* C26: _compute_ai_predictions calls the engine when the initiative has 2
\* activities or more, whatever their buckets: with fewer the fields get
\* 0.0, 'stable', False and 0.0 without a call, even for one activity of
\* positive value inside the window; with 2 or more the results of the
\* engine are stored.
GateOnActivities ==
    ret.fn = "_compute_ai_predictions" =>
        /\ ret.called <=> Len(activities) >= 2
        /\ ~ret.called => IsDefault(ret.fields)
        /\ (ret.called /\ ret.raised = 0) =>
              /\ Len(ret.buckets) = 3
              /\ IsFromEngine(ret.fields, ret.buckets)

\* one activity of 30 in the window: the engine would predict 30.0
SingleActivityUngated ==
    /\ ret.fn = "_compute_ai_predictions"
    /\ Len(activities) = 1
    /\ ~SomeDateMissing
    /\ predict_next_month_co2(activities, today).value = FromInt(30)
    /\ ~ret.called
    /\ IsDefault(ret.fields)

\* C27: in one pass of _compute_ai_predictions the prediction, the trend
\* and the confidence come from the same buckets.
SameBuckets ==
    (ret.fn = "_compute_ai_predictions" /\ ret.called /\ ret.raised = 0) =>
        /\ ret.buckets[1] = ret.buckets[2]
        /\ ret.buckets[2] = ret.buckets[3]

\* the co2_saved of the activities of the window of n months
RetainedValues(n) == [i \in 1..Len(Retained(n)) |-> Retained(n)[i].co2_saved]

\* C24 as stated: the sum of the totals of the buckets returned by
\* get_monthly_data equals the sum of the co2_saved of the activities with
\* start <= date <= end, both sums taken with sum().
BucketsConserveSum ==
    ret.fn = "get_monthly_data" =>
        builtin_sum(column(ret.value)) = builtin_sum(RetainedValues(ret.months))

\* C24: an activity outside the window counts in no bucket (without it the
\* buckets are the same), an activity inside it counts in exactly one, and
\* the sum of the totals equals the sum of the co2_saved of the activities
\* inside when these are whole numbers.
BucketsPartition ==
    ret.fn = "get_monthly_data" =>
        /\ ret.value = get_monthly_data(Retained(ret.months), today, ret.months)
        /\ \A i \in 1..Len(Retained(ret.months)) :
              Cardinality({j \in 1..Len(ret.value) :
                              ret.value[j][1]
                                  = MonthIndex(Retained(ret.months)[i], ret.months)})
                  = 1
        /\ (\A i \in 1..Len(Retained(ret.months)) :
               RetainedValues(ret.months)[i] \in {FromInt(10), FromInt(-10)})
              => builtin_sum(column(ret.value))
                     = builtin_sum(RetainedValues(ret.months))

\* 10 a day before the window, 10 and 10 in one month inside: one bucket of 20
OutsideLeftOut ==
    /\ ret.fn = "get_monthly_data" /\ ret.months = 6
    /\ Len(activities) = 3
    /\ Len(Retained(6)) = 2
    /\ \E i \in 1..3 : activities[i].activity_date = Date(2023, 9, 29)
    /\ Len(ret.value) = 1
    /\ ret.value[1][2] = FromInt(20)

\* C25: in calculate_trend with 3 buckets or more the earlier group is the
\* first buckets and the recent group the last ones, both are non-empty and
\* they share no bucket; up to 6 buckets they cover all of them, and with 7
\* the middle one is in neither.
TrendGroupsDisjoint ==
    (ret.fn = "calculate_trend" /\ Len(ret.monthly_data) >= 3) =>
        LET n == Len(ret.monthly_data)
            e == Len(ret.earlier)
            r == Len(ret.recent)
        IN  /\ e >= 1 /\ r >= 1
            /\ ret.earlier = column(SubSeq(ret.monthly_data, 1, e))
            /\ ret.recent = column(SubSeq(ret.monthly_data, n - r + 1, n))
            /\ e + r <= n
            /\ n <= 6 => e + r = n
            /\ n = 7 => e = 3 /\ r = 3

\* seven buckets: the fourth is in neither group
MiddleBucketLeftOut ==
    /\ ret.fn = "calculate_trend"
    /\ Len(ret.monthly_data) = 7
    /\ Len(ret.earlier) = 3
    /\ Len(ret.recent) = 3

\* C28: get_top_activity_type counts every activity of the initiative,
\* whatever its date: with at least one activity it returns the label of a
\* type that has an activity, and the totals it compares are those of all
\* the activities of each type, also when no activity is in the window of 6
\* months and when no total is positive.
TopOverAllActivities ==
    (ret.fn = "get_top_activity_type" /\ activities # <<>>) =>
        /\ ToString(ret.value) # "FALSE"
        /\ \E i \in 1..Len(activities) :
              ret.value = activity_type_labels[activities[i].activity_type]
        /\ \A i \in 1..Len(activities) :
              \E k \in 1..Len(ret.type_totals) :
                  /\ ret.type_totals[k][1] = activities[i].activity_type
                  /\ ret.type_totals[k][2] = TotalOfType(activities[i].activity_type)

\* the only activities are older than the window
TopOutsideWindow ==
    /\ ret.fn = "get_top_activity_type"
    /\ activities # <<>>
    /\ Retained(6) = <<>>
    /\ ret.value = "Paper Usage"

\* the only total is negative
TopOfNegativeTotals ==
    /\ ret.fn = "get_top_activity_type"
    /\ activities # <<>>
    /\ \A k \in 1..Len(ret.type_totals) : float_lt(ret.type_totals[k][2], Zero)
    /\ ret.value = "Fuel Consumption"

\* C29: after _compute_state a goal whose deadline has passed and whose
\* achievement is below 100 is 'missed'; it is 'achieved' exactly when the
\* achievement is 100 or more; it is 'in_progress' only with some progress
\* and a deadline that has not passed.
GoalStateAsStated ==
    ret.fn = "_compute_state" =>
        LET passed == date_le(ret.target_date, today) /\ ret.target_date # today
        IN  /\ (passed /\ float_lt(ret.achievement_percentage, FromInt(100)))
                   => ret.state = "missed"
            /\ ret.state = "achieved"
                   <=> float_le(FromInt(100), ret.achievement_percentage)
            /\ ret.state = "in_progress"
                   => ~IsZero(ret.actual_co2_reduction) /\ ~passed

\* what _compute_state does: a goal without progress is 'pending', also
\* after its deadline
GoalStateByBranch ==
    ret.fn = "_compute_state" =>
        LET passed == date_le(ret.target_date, today) /\ ret.target_date # today
            met == float_le(FromInt(100), ret.achievement_percentage)
            none == IsZero(ret.actual_co2_reduction)
        IN  /\ ret.state = "achieved" <=> met
            /\ ret.state = "pending" <=> (~met /\ none)
            /\ ret.state = "missed" <=> (~met /\ ~none /\ passed)
            /\ ret.state = "in_progress" <=> (~met /\ ~none /\ ~passed)

\* the deadline has passed, nothing is saved, the goal is 'pending'
PendingAfterDeadline ==
    /\ ret.fn = "_compute_state"
    /\ date_le(ret.target_date, today) /\ ret.target_date # today
    /\ IsZero(ret.actual_co2_reduction)
    /\ ret.state = "pending"

-----------------------------------------------------------------------------
(* carbon.activity: the scheduled refresh of the emission factors.  The    *)
(* activities carry their emission factor and its source; an unset         *)
(* selection or text field is "".  The draw of random.uniform and the      *)
(* activities whose fetch raises are inputs of a run.                      *)

EMISSION_FACTORS ==
    [electricity |-> Dec(45, 2), fuel |-> Dec(231, 2), paper |-> Dec(1, 2),
     travel |-> Dec(12, 2), waste |-> Dec(5, 1), water |-> Dec(3, 4)]

emirate_factors == [du |-> Dec(93, 2), ad |-> Dec(102, 2), sh |-> Dec(98, 2)]

fuel_multipliers ==
    [gasoline |-> FromInt(1), diesel |-> Dec(116, 2), natural_gas |-> Dec(8, 1),
     jet_fuel |-> Dec(12, 1), propane |-> Dec(95, 2)]

\* the multiplier of the vehicle; the tested names are the whole model name
vehicle_multiplier(vehicle_model, variation) ==
    IF vehicle_model \in {"Land Cruiser", "Patrol"} THEN Dec(233, 2)
    ELSE IF vehicle_model \in {"Camry", "Accord"} THEN Dec(125, 2)
    ELSE IF vehicle_model \in {"Civic", "Corolla"} THEN Dec(108, 2)
    ELSE variation

\* what base_factor is multiplied by: the drawn variation, or the adjustment
\* of the emirate, the fuel or the vehicle
api_multiplier(activity, variation) ==
    IF activity.activity_type = "electricity" /\ activity.location_state # ""
    THEN IF activity.location_state \in DOMAIN emirate_factors
         THEN emirate_factors[activity.location_state] ELSE FromInt(1)
    ELSE IF activity.activity_type = "fuel" /\ activity.fuel_type # ""
    THEN IF activity.fuel_type \in DOMAIN fuel_multipliers
         THEN fuel_multipliers[activity.fuel_type] ELSE FromInt(1)
    ELSE IF activity.activity_type = "travel" /\ activity.vehicle_model # ""
    THEN vehicle_multiplier(activity.vehicle_model, variation)
    ELSE variation

\* fetch_emission_factor_from_api, with the drawn variation
fetch_emission_factor_from_api(activity, variation) ==
    IF activity.activity_type \in {"electricity", "fuel", "travel"}
    THEN [emission_factor |->
              float_round(float_mul(EMISSION_FACTORS[activity.activity_type],
                                    api_multiplier(activity, variation)), 4),
          source |-> "api_realtime"]
    ELSE [emission_factor |-> EMISSION_FACTORS[activity.activity_type],
          source |-> "static_uae"]

\* d - timedelta(days=n)
RECURSIVE days_before(_, _)
days_before(d, n) ==
    IF n = 0 THEN d
    ELSE IF d.day > 1 THEN days_before(Date(d.year, d.month, d.day - 1), n - 1)
    ELSE IF d.month > 1
         THEN days_before(Date(d.year, d.month - 1,
                               DaysInMonth(d.year, d.month - 1)), n - 1)
    ELSE days_before(Date(d.year - 1, 12, 31), n - 1)

\* the places of the records found by the search of the refresh
searched(acts, now) ==
    {i \in 1..Len(acts) :
        /\ acts[i].emission_factor_source = "api_realtime"
        /\ date_le(days_before(now, 90), acts[i].activity_date)}

\* abs(api_result['emission_factor'] - activity.emission_factor) > 0.01
changed_significantly(api_result, activity) ==
    float_lt(Dec(1, 2),
             float_abs(float_sub(api_result.emission_factor,
                                 activity.emission_factor)))

\* the locals at the end of the loop: the results fetched for the records
\* whose fetch did not raise, and the count of the changed factors
refresh_counted(found, failed, api_results, acts) ==
    [fn |-> "update_emission_factors_from_api", found |-> found,
     failed |-> failed, api_results |-> api_results,
     updated_count |->
         Cardinality({i \in DOMAIN api_results :
                         changed_significantly(api_results[i], acts[i])}),
     value |-> TRUE]

refresh_fetched(found, failed, variations, acts) ==
    refresh_counted(found, failed,
                    [i \in found \ failed |->
                        fetch_emission_factor_from_api(acts[i], variations[i])],
                    acts)

\* the cron job runs update_emission_factors_from_api: no record is written
UpdateEmissionFactorsFromApi(variations, failing) ==
    /\ ret' = refresh_fetched(searched(activities, today),
                              searched(activities, today) \cap failing,
                              variations, activities)
    /\ UNCHANGED <<today, activities, compensated, data_points>>

FactorActivity(d, t, factor, source, location, fuel, vehicle) ==
    [activity_date |-> d, activity_type |-> t, emission_factor |-> factor,
     emission_factor_source |-> source, location_state |-> location,
     fuel_type |-> fuel, vehicle_model |-> vehicle]

MaxFactorActivities == 2

FactorActivities ==
    {FactorActivity(Date(2024, 1, 15), "electricity", Dec(45, 2), "api_realtime",
                    "", "", ""),
     FactorActivity(Date(2024, 3, 5), "electricity", Dec(45, 2), "api_realtime",
                    "du", "", ""),
     FactorActivity(Date(2023, 12, 31), "fuel", Dec(231, 2), "api_realtime",
                    "", "diesel", ""),
     FactorActivity(Date(2024, 3, 5), "travel", Dec(12, 2), "api_realtime",
                    "", "", "Camry"),
     FactorActivity(Date(2024, 3, 5), "paper", Dec(1, 2), "static_uae",
                    "", "", "")}

\* draws of random.uniform(0.95, 1.05)
Variations == {Dec(95, 2), FromInt(1), Dec(105, 2)}

NextFactors ==
    \/ \E a \in FactorActivities :
          Len(activities) < MaxFactorActivities /\ CreateActivity(a)
    \/ \E variations \in [1..Len(activities) -> Variations],
          failing \in SUBSET (1..Len(activities)) :
          UpdateEmissionFactorsFromApi(variations, failing)

SpecFactors == InitWindow /\ [][NextFactors]_vars

\* the places of the found records whose fetched factor differs from the
\* stored one by more than 0.01
SignificantlyChanged ==
    {i \in DOMAIN ret.api_results :
        changed_significantly(ret.api_results[i], activities[i])}

\* C30: after a run of update_emission_factors_from_api every activity with
\* source 'api_realtime' of the last 90 days whose fetched factor differs
\* from its emission_factor by more than 0.01 has the fetched factor as its
\* emission_factor; the count of the run is the number of these activities;
\* a fetch that fails does not stop the run.
FactorsRefreshed ==
    ret.fn = "update_emission_factors_from_api" =>
        /\ \A i \in ret.found :
              /\ activities[i].emission_factor_source = "api_realtime"
              /\ date_le(days_before(today, 90), activities[i].activity_date)
        /\ DOMAIN ret.api_results = ret.found \ ret.failed
        /\ ret.updated_count = Cardinality(SignificantlyChanged)
        /\ \A i \in SignificantlyChanged :
              activities[i].emission_factor = ret.api_results[i].emission_factor

\* what the run does: it counts the changed factors and writes none
FactorsOnlyCounted ==
    ret.fn = "update_emission_factors_from_api" =>
        /\ DOMAIN ret.api_results = ret.found \ ret.failed
        /\ ret.updated_count = Cardinality(SignificantlyChanged)
        /\ \A i \in SignificantlyChanged :
              activities[i].emission_factor # ret.api_results[i].emission_factor
        /\ ret.value = TRUE

\* one fetch raised, another found a changed factor, which was counted
CountedAfterFailure ==
    /\ ret.fn = "update_emission_factors_from_api"
    /\ ret.failed # {}
    /\ ret.updated_count >= 1

=============================================================================
